---- MODULE Spec2Model ----
(***************************************************************************)
(* Model of the email validation engine (email_validator.py) and of the    *)
(* batch runners built on it (main of the CLI, the server's bulk runners).  *)
(*                                                                         *)
(* Strings are sequences of one-character strings, so that splitting,      *)
(* stripping, lower-casing and the syntax rules are computed as the code   *)
(* computes them.  An Optional value is the empty tuple (None) or a        *)
(* one-element tuple <<v>>.  The per-result "logs" list (timestamped       *)
(* diagnostic lines) is not modelled.                                      *)
(***************************************************************************)
EXTENDS Integers, Sequences, FiniteSets, TLC

None == <<>>
Some(v) == <<v>>

----------------------------------------------------------------------------
(* Bounds of the model *)

\* longest nslookup output (in parsed lines) the environment produces
MaxLines == 2
\* largest batch submitted to a batch runner
MaxBatch == 2
\* largest value of the concurrency option tried
MaxConc == 2

----------------------------------------------------------------------------
(* Character classes and string helpers *)

UpperLetters == <<"A","B","C","D","E","F","G","H","I","J","K","L","M",
                  "N","O","P","Q","R","S","T","U","V","W","X","Y","Z">>
LowerLetters == <<"a","b","c","d","e","f","g","h","i","j","k","l","m",
                  "n","o","p","q","r","s","t","u","v","w","x","y","z">>
Digits == {"0","1","2","3","4","5","6","7","8","9"}
Letters == {UpperLetters[i] : i \in 1..26} \cup {LowerLetters[i] : i \in 1..26}
AlNum == Letters \cup Digits
Whitespace == {" ", "\t", "\n", "\r"}

\* str.lower() on one character
LowerChar(c) ==
    IF \E i \in 1..26 : UpperLetters[i] = c
    THEN LowerLetters[CHOOSE i \in 1..26 : UpperLetters[i] = c]
    ELSE c

\* str.lower()
Lower(s) == [i \in 1..Len(s) |-> LowerChar(s[i])]

\* str.strip()
Strip(s) ==
    LET keep == {i \in 1..Len(s) : s[i] \notin Whitespace}
    IN  IF keep = {} THEN <<>>
        ELSE LET lo == CHOOSE i \in keep : \A j \in keep : i <= j
                 hi == CHOOSE i \in keep : \A j \in keep : j <= i
             IN  SubSeq(s, lo, hi)

\* str.rstrip('.')
RStripDot(s) ==
    LET keep == {i \in 1..Len(s) : s[i] # "."}
    IN  IF keep = {} THEN <<>>
        ELSE SubSeq(s, 1, CHOOSE i \in keep : \A j \in keep : j <= i)

\* "x" in s, for a single character
HasChar(s, c) == \E i \in 1..Len(s) : s[i] = c

\* index of the last occurrence of c in s (s contains c)
LastIndex(s, c) == CHOOSE i \in 1..Len(s) : s[i] = c /\ \A j \in (i+1)..Len(s) : s[j] # c

\* s.split(c): the list of fields between the separators
RECURSIVE Split(_, _)
Split(s, c) ==
    IF ~HasChar(s, c) THEN <<s>>
    ELSE LET i == CHOOSE k \in 1..Len(s) : s[k] = c /\ \A j \in 1..(k-1) : s[j] # c
         IN  <<SubSeq(s, 1, i-1)>> \o Split(SubSeq(s, i+1, Len(s)), c)

----------------------------------------------------------------------------
(* Program constants *)

MaxLocalLen == 64
MaxDomainLen == 253
MaxLabelLen == 63
MinTldLen == 2
DefaultPort == 25
DefaultPref == 10

DISPOSABLE_DOMAINS ==
    { <<"m","a","i","l","i","n","a","t","o","r",".","c","o","m">>,
      <<"1","0","m","i","n","u","t","e","m","a","i","l",".","c","o","m">>,
      <<"g","u","e","r","r","i","l","l","a","m","a","i","l",".","c","o","m">>,
      <<"y","o","p","m","a","i","l",".","c","o","m">>,
      <<"t","e","m","p","m","a","i","l",".","c","o","m">>,
      <<"t","e","m","p","-","m","a","i","l",".","o","r","g">>,
      <<"t","h","r","o","w","a","w","a","y","m","a","i","l",".","c","o","m">>,
      <<"m","o","a","k","t",".","c","o","m">>,
      <<"t","r","a","s","h","m","a","i","l",".","c","o","m">> }

----------------------------------------------------------------------------
(* Syntax normalizer *)

\* characters the local-part pattern of is_valid_syntax allows (the backquote,
\* which the pattern also allows, is outside the alphabet of the model)
LocalChars ==
    AlNum \cup {"!","#","$","%","&","'","*","+","/","=","?","^","_",
                "{","|","}","~",".","-"}

\* domain.encode("idna").decode("ascii") on an ASCII domain: the text is kept,
\* and the codec raises when a label other than the last is empty or longer
\* than 63 characters, or the last is longer than 63.  The result is
\* None when the codec raises.
IdnaEncode(domain) ==
    IF domain = <<>> THEN Some(<<>>)
    ELSE LET labels == Split(domain, ".")
             n == Len(labels)
         IN  IF /\ \A i \in 1..(n-1) : Len(labels[i]) \in 1..MaxLabelLen
                /\ Len(labels[n]) <= MaxLabelLen
             THEN Some(domain)
             ELSE None

\* normalize_email: <<normalized, local, ascii_domain>>, each an Optional
normalize_email(email) ==
    IF ~HasChar(email, "@") THEN <<None, None, None>>
    ELSE LET at == LastIndex(email, "@")
             local == Strip(SubSeq(email, 1, at-1))
             domain == Lower(Strip(SubSeq(email, at+1, Len(email))))
             enc == IdnaEncode(domain)
             ascii_domain == IF enc = None THEN domain ELSE enc[1]
         IN  <<Some(local \o <<"@">> \o ascii_domain), Some(local), Some(ascii_domain)>>

\* the label pattern [A-Za-z0-9](?:[A-Za-z0-9-]{0,61}[A-Za-z0-9])?
LabelMatches(label) ==
    /\ Len(label) \in 1..MaxLabelLen
    /\ label[1] \in AlNum
    /\ label[Len(label)] \in AlNum
    /\ \A i \in 1..Len(label) : label[i] \in AlNum \cup {"-"}

\* is_valid_syntax: <<ok, why>>, why an Optional reason code
is_valid_syntax(email) ==
    IF ~HasChar(email, "@") THEN <<FALSE, Some("missing_at")>>
    ELSE
    LET at == LastIndex(email, "@")
        local == SubSeq(email, 1, at-1)
        domain == SubSeq(email, at+1, Len(email))
        enc == IdnaEncode(domain)
    IN  IF ~(Len(local) \in 1..MaxLocalLen) THEN <<FALSE, Some("local_length")>>
        ELSE IF \/ local[1] = "."
                \/ local[Len(local)] = "."
                \/ \E i \in 1..(Len(local)-1) : local[i] = "." /\ local[i+1] = "."
        THEN <<FALSE, Some("local_dots")>>
        ELSE IF \E i \in 1..Len(local) : local[i] \notin LocalChars
        THEN <<FALSE, Some("local_chars")>>
        ELSE IF enc = None THEN <<FALSE, Some("domain_idna")>>
        ELSE
        LET ascii_domain == enc[1]
            labels == Split(ascii_domain, ".")
            bad == {i \in 1..Len(labels) :
                       ~(Len(labels[i]) \in 1..MaxLabelLen) \/ ~LabelMatches(labels[i])}
            first == CHOOSE i \in bad : \A j \in bad : i <= j
        IN  IF Len(ascii_domain) > MaxDomainLen THEN <<FALSE, Some("domain_length")>>
            ELSE IF Len(labels) < 2 THEN <<FALSE, Some("domain_tld")>>
            ELSE IF bad # {}
            THEN IF ~(Len(labels[first]) \in 1..MaxLabelLen)
                 THEN <<FALSE, Some("label_length")>>
                 ELSE <<FALSE, Some("label_chars")>>
            ELSE IF Len(labels[Len(labels)]) < MinTldLen THEN <<FALSE, Some("tld_length")>>
            ELSE <<TRUE, None>>

----------------------------------------------------------------------------
(* MX resolver *)

\* One line of nslookup output, as the two patterns of nslookup_mx see it:
\* "pref" matches pref_host, "host_only" matches only host_only, "other"
\* matches neither.
ParseLine(line) ==
    IF line.kind = "pref" THEN <<<<line.pref, RStripDot(line.host)>>>>
    ELSE IF line.kind = "host_only" THEN <<<<DefaultPref, RStripDot(line.host)>>>>
    ELSE <<>>

RECURSIVE ParseLines(_)
ParseLines(lines) ==
    IF lines = <<>> THEN <<>> ELSE ParseLine(Head(lines)) \o ParseLines(Tail(lines))

\* the dict "best": hosts in order of first appearance, each with its lowest
\* preference; entries are <<pref, host>>
RECURSIVE DedupBest(_, _)
DedupBest(mx_records, best) ==
    IF mx_records = <<>> THEN best
    ELSE LET pref == Head(mx_records)[1]
             host == Head(mx_records)[2]
             at == {i \in 1..Len(best) : best[i][2] = host}
             i == CHOOSE k \in at : TRUE
         IN  DedupBest(Tail(mx_records),
                       IF at = {} THEN Append(best, <<pref, host>>)
                       ELSE IF pref < best[i][1] THEN [best EXCEPT ![i] = <<pref, host>>]
                       ELSE best)

\* faulty variant of SortedByPref: the records stay in the order of the answer
Unsorted(items) == items

\* sorted(..., key=lambda x: x[0]): stable, ascending by preference
RECURSIVE SortedByPref(_)
SortedByPref(items) ==
    IF items = <<>> THEN <<>>
    ELSE LET rest == SortedByPref(SubSeq(items, 1, Len(items)-1))
             x == items[Len(items)]
             before == {i \in 1..Len(rest) : rest[i][1] <= x[1]}
             k == IF before = {} THEN 0 ELSE CHOOSE i \in before : \A j \in before : j <= i
         IN  SubSeq(rest, 1, k) \o <<x>> \o SubSeq(rest, k+1, Len(rest))

\* nslookup_mx: the answer of the resolver subprocess is either its output
\* lines or an exception (timeout, tool missing, other), which yields []
nslookup_mx(answer) ==
    IF answer.kind = "ok"
    THEN SortedByPref(DedupBest(ParseLines(answer.lines), <<>>))
    ELSE <<>>

\* resolve_a: the sorted addresses, or [] when getaddrinfo raises
resolve_a(answer) ==
    IF answer.kind = "ok" THEN answer.addrs ELSE <<>>

\* seq[:k] of Python, k any integer
SlicePrefix(seq, k) ==
    LET n == IF k >= 0 THEN (IF k < Len(seq) THEN k ELSE Len(seq))
             ELSE (IF Len(seq) + k > 0 THEN Len(seq) + k ELSE 0)
    IN  SubSeq(seq, 1, n)

\* [host for _, host in mx][:max_mx]
MxHostsOf(mx, k) == SlicePrefix([i \in 1..Len(mx) |-> mx[i][2]], k)

----------------------------------------------------------------------------
(* SMTP prober *)

AcceptCodes == {250, 251}
HardCodes == {550, 551, 552, 553, 554}
SoftCodes == {450, 451, 452, 421}

\* smtp_try_rcpt when every port failed
ProbeFailed == [accepted |-> FALSE, code |-> None, connected |-> FALSE]

\* smtp_try_rcpt when the conversation on a port reached the RCPT reply
\* (the reply text is returned too; check_email stores it in a local that
\* nothing reads, and it is left out)
ProbeAnswered(code_rcpt) ==
    [accepted |-> code_rcpt \in AcceptCodes, code |-> Some(code_rcpt), connected |-> TRUE]

\* One iteration of the port loop of smtp_try_rcpt, on the i-th of the ports:
\* Some(outcome) when smtp_try_rcpt returns, None when the loop goes on to
\* the next port.  attempt.kind is "reply" when the session reached RCPT, and
\* otherwise names the exception raised somewhere inside the with block.
SmtpPortStep(attempt, i, port_list) ==
    IF attempt.kind = "reply" THEN Some(ProbeAnswered(attempt.code))
    ELSE IF i >= Len(port_list) THEN Some(ProbeFailed)
    ELSE None

----------------------------------------------------------------------------
(* check_email *)

\* faulty variant of RealLoopBody: the code of the first replying host is kept
RealLoopBodyKeepsFirstCode(d, conn, rc, out) ==
    LET conn2 == conn \/ out.connected
        rc2 == IF out.connected /\ out.code # None /\ rc = None THEN out.code ELSE rc
    IN  IF out.accepted
        THEN [deliverable |-> Some(TRUE), smtp_connectable |-> conn2,
              rcpt_code |-> rc2, brk |-> TRUE]
        ELSE [deliverable |-> IF out.code # None /\ out.code[1] \in HardCodes
                              THEN Some(FALSE) ELSE d,
              smtp_connectable |-> conn2, rcpt_code |-> rc2, brk |-> FALSE]

\* faulty variant of RealLoopBody: a soft failure puts deliverable back to unknown
RealLoopBodySoftResets(d, conn, rc, out) ==
    LET conn2 == conn \/ out.connected
        rc2 == IF out.connected /\ out.code # None THEN out.code ELSE rc
    IN  IF out.accepted
        THEN [deliverable |-> Some(TRUE), smtp_connectable |-> conn2,
              rcpt_code |-> rc2, brk |-> TRUE]
        ELSE [deliverable |-> IF out.code # None /\ out.code[1] \in HardCodes
                              THEN Some(FALSE) ELSE None,
              smtp_connectable |-> conn2, rcpt_code |-> rc2, brk |-> FALSE]

\* body of the loop over mx_hosts of the real pass, for one probe outcome
RealLoopBody(d, conn, rc, out) ==
    LET conn2 == conn \/ out.connected
        rc2 == IF out.connected /\ out.code # None THEN out.code ELSE rc
    IN  IF out.accepted
        THEN [deliverable |-> Some(TRUE), smtp_connectable |-> conn2,
              rcpt_code |-> rc2, brk |-> TRUE]
        ELSE [deliverable |-> IF out.code # None /\ out.code[1] \in HardCodes
                              THEN Some(FALSE) ELSE d,
              smtp_connectable |-> conn2, rcpt_code |-> rc2, brk |-> FALSE]

\* faulty variant of CatchLoopBody: a hard negative does not end the loop
CatchLoopBodyHardContinues(ca, out) ==
    IF out.accepted THEN [is_catch_all |-> Some(TRUE), brk |-> TRUE]
    ELSE IF out.code # None /\ out.code[1] \in HardCodes
    THEN [is_catch_all |-> Some(FALSE), brk |-> FALSE]
    ELSE [is_catch_all |-> ca, brk |-> FALSE]

\* body of the loop over mx_hosts of the catch-all pass
CatchLoopBody(ca, out) ==
    IF out.accepted THEN [is_catch_all |-> Some(TRUE), brk |-> TRUE]
    ELSE IF out.code # None /\ out.code[1] \in HardCodes
    THEN [is_catch_all |-> Some(FALSE), brk |-> TRUE]
    ELSE [is_catch_all |-> ca, brk |-> FALSE]

\* faulty variant of CatchDefault: the default after the catch-all loop is missing
CatchDefaultMissing(ca) == ca

\* "if is_catch_all is None: is_catch_all = False" after the catch-all loop
CatchDefault(ca) == IF ca = None THEN Some(FALSE) ELSE ca

\* faulty variant of CatchAllRuns: the pass runs unless a host rejected the recipient
CatchAllRunsUnlessRejected(d) == d # Some(FALSE)

\* "if deliverable:" guarding the catch-all pass
CatchAllRuns(d) == d = Some(TRUE)

\* faulty variant of RcptReason: the test is "rcpt_code is not None"
RcptReasonUnlessNone(rc, fallback) ==
    IF rc # None THEN <<"rcpt_", rc[1]>> ELSE <<fallback>>

\* f"rcpt_{rcpt_code}" if rcpt_code else fallback
RcptReason(rc, fallback) ==
    IF rc # None /\ rc[1] # 0 THEN <<"rcpt_", rc[1]>> ELSE <<fallback>>

\* faulty variant of FinalStatus: the unreachable test comes last instead of first
FinalStatusUnreachableLast(conn, d, ca, rc) ==
    IF d = Some(TRUE) /\ ca = Some(TRUE) THEN <<"unknown", <<"accepts_all">>>>
    ELSE IF d = Some(TRUE) THEN <<"deliverable", None>>
    ELSE IF d = Some(FALSE) THEN <<"undeliverable", RcptReason(rc, "hard_fail")>>
    ELSE IF rc # None THEN <<"unknown", RcptReason(rc, "temp_fail")>>
    ELSE IF ~conn THEN <<"unknown", <<"temp_fail">>>>
    ELSE <<"unknown", <<"smtp_unreachable">>>>

\* faulty variant of FinalStatus: the deliverable test comes before the accepts_all test
FinalStatusCatchAllAfter(conn, d, ca, rc) ==
    IF ~conn /\ d = None THEN <<"unknown", <<"smtp_unreachable">>>>
    ELSE IF d = Some(TRUE) THEN <<"deliverable", None>>
    ELSE IF d = Some(TRUE) /\ ca = Some(TRUE) THEN <<"unknown", <<"accepts_all">>>>
    ELSE IF d = Some(FALSE) THEN <<"undeliverable", RcptReason(rc, "hard_fail")>>
    ELSE <<"unknown", RcptReason(rc, "temp_fail")>>

\* the final status chain: <<status, reason>>; a reason is None or a tuple of
\* the pieces of its text
FinalStatus(conn, d, ca, rc) ==
    IF ~conn /\ d = None THEN <<"unknown", <<"smtp_unreachable">>>>
    ELSE IF d = Some(TRUE) /\ ca = Some(TRUE) THEN <<"unknown", <<"accepts_all">>>>
    ELSE IF d = Some(TRUE) THEN <<"deliverable", None>>
    ELSE IF d = Some(FALSE) THEN <<"undeliverable", RcptReason(rc, "hard_fail")>>
    ELSE <<"unknown", RcptReason(rc, "temp_fail")>>

\* is_disposable = domain in DISPOSABLE_DOMAINS
IsDisposable(dom) == dom \in DISPOSABLE_DOMAINS

\* faulty variant of SyntaxFailure: the block is the copy of the invalid_domain block
\* with is_valid_syntax left true
SyntaxFailureKeepsFlag(em, norm, dom, why) ==
    [email |-> em, normalized_email |-> norm, domain |-> dom,
     is_valid_syntax |-> TRUE, domain_has_mx |-> FALSE, smtp_connectable |-> FALSE,
     is_deliverable |-> Some(FALSE), is_catch_all |-> None, is_disposable |-> None,
     status |-> "invalid_syntax", reason |-> why, mx_hosts |-> <<>>]

\* the result of the early return on a syntax failure
SyntaxFailure(em, norm, dom, why) ==
    [email |-> em, normalized_email |-> norm, domain |-> dom,
     is_valid_syntax |-> FALSE, domain_has_mx |-> FALSE, smtp_connectable |-> FALSE,
     is_deliverable |-> Some(FALSE), is_catch_all |-> None, is_disposable |-> None,
     status |-> "invalid_syntax", reason |-> why, mx_hosts |-> <<>>]

\* faulty variant of DomainFailure: the domain is listed as the host that was tried
DomainFailureListsDomain(em, norm, dom) ==
    [email |-> em, normalized_email |-> norm, domain |-> dom,
     is_valid_syntax |-> TRUE, domain_has_mx |-> FALSE, smtp_connectable |-> FALSE,
     is_deliverable |-> Some(FALSE), is_catch_all |-> None, is_disposable |-> None,
     status |-> "invalid_domain", reason |-> <<"no_mx_no_a">>, mx_hosts |-> <<dom[1]>>]

\* the result of the early return when neither MX nor A/AAAA exists
DomainFailure(em, norm, dom) ==
    [email |-> em, normalized_email |-> norm, domain |-> dom,
     is_valid_syntax |-> TRUE, domain_has_mx |-> FALSE, smtp_connectable |-> FALSE,
     is_deliverable |-> Some(FALSE), is_catch_all |-> None, is_disposable |-> None,
     status |-> "invalid_domain", reason |-> <<"no_mx_no_a">>, mx_hosts |-> <<>>]

\* faulty variant of FinalResult: the disposable test looks up the normalized address
\* instead of the domain
FinalResultDisposableOfAddress(em, norm, dom, has_mx, conn, d, ca, rc, hosts) ==
    [email |-> em, normalized_email |-> norm, domain |-> dom,
     is_valid_syntax |-> TRUE, domain_has_mx |-> has_mx, smtp_connectable |-> conn,
     is_deliverable |-> d, is_catch_all |-> ca,
     is_disposable |-> Some(IsDisposable(norm[1])),
     status |-> FinalStatus(conn, d, ca, rc)[1],
     reason |-> FinalStatus(conn, d, ca, rc)[2], mx_hosts |-> hosts]

\* faulty variant of FinalResult: a catch-all host is reported as not deliverable
FinalResultCatchAllNotDeliverable(em, norm, dom, has_mx, conn, d, ca, rc, hosts) ==
    [email |-> em, normalized_email |-> norm, domain |-> dom,
     is_valid_syntax |-> TRUE, domain_has_mx |-> has_mx, smtp_connectable |-> conn,
     is_deliverable |-> IF ca = Some(TRUE) THEN Some(FALSE) ELSE d, is_catch_all |-> ca,
     is_disposable |-> Some(IsDisposable(dom[1])),
     status |-> FinalStatus(conn, d, ca, rc)[1],
     reason |-> FinalStatus(conn, d, ca, rc)[2], mx_hosts |-> hosts]

\* faulty variant of FinalResult: a catch-all verdict withdraws is_deliverable
FinalResultCatchAllHidesDeliverable(em, norm, dom, has_mx, conn, d, ca, rc, hosts) ==
    [email |-> em, normalized_email |-> norm, domain |-> dom,
     is_valid_syntax |-> TRUE, domain_has_mx |-> has_mx, smtp_connectable |-> conn,
     is_deliverable |-> IF ca = Some(TRUE) THEN None ELSE d, is_catch_all |-> ca,
     is_disposable |-> Some(IsDisposable(dom[1])),
     status |-> FinalStatus(conn, d, ca, rc)[1],
     reason |-> FinalStatus(conn, d, ca, rc)[2], mx_hosts |-> hosts]

\* the result of the final return
FinalResult(em, norm, dom, has_mx, conn, d, ca, rc, hosts) ==
    [email |-> em, normalized_email |-> norm, domain |-> dom,
     is_valid_syntax |-> TRUE, domain_has_mx |-> has_mx, smtp_connectable |-> conn,
     is_deliverable |-> d, is_catch_all |-> ca,
     is_disposable |-> Some(IsDisposable(dom[1])),
     status |-> FinalStatus(conn, d, ca, rc)[1],
     reason |-> FinalStatus(conn, d, ca, rc)[2], mx_hosts |-> hosts]

----------------------------------------------------------------------------
(* Inputs and environment answers *)

\* addresses given to check_email
SampleEmails ==
    { <<"u","@","m","o","a","k","t",".","c","o","m">>,
      <<"v","@","M","o","a","k","t",".","c","o","m">>,
      <<"a",".",".","b","@","m","o","a","k","t",".","c","o","m">>,
      <<"u","@","e","x",".","o","r","g">>,
      <<" ","u","@","E","X",".","o","r","g"," ">>,
      <<"a","@","b","@","e","x",".","o","r","g">>,
      <<"u","@","e","x">>,
      <<"u","e","x",".","o","r","g">> }

\* values of the max_mx option
MaxMxValues == {-1, 0, 1, 2}

\* values of the ports option (the empty list also stands for None)
PortsArgs == {<<>>, <<25>>, <<25, 587>>}

\* lines the resolver subprocess may print
LineChoices ==
    { [kind |-> "pref", pref |-> 5, host |-> <<"m","1",".">>],
      [kind |-> "pref", pref |-> 20, host |-> <<"m","1">>],
      [kind |-> "pref", pref |-> 20, host |-> <<"m","2">>],
      [kind |-> "host_only", pref |-> 0, host |-> <<"m","2",".">>],
      [kind |-> "other", pref |-> 0, host |-> <<>>] }

SeqsUpTo(S, n) == UNION {[1..k -> S] : k \in 0..n}

\* what the nslookup subprocess does
MxAnswers ==
    {[kind |-> "ok", lines |-> ls] : ls \in SeqsUpTo(LineChoices, MaxLines)}
    \cup {[kind |-> k, lines |-> <<>>] : k \in {"timeout", "not_found", "error"}}

\* what socket.getaddrinfo does
AAnswers ==
    { [kind |-> "ok", addrs |-> <<"192.0.2.1">>],
      [kind |-> "ok", addrs |-> <<>>],
      [kind |-> "error", addrs |-> <<>>] }

\* reply codes a server gives to RCPT TO
ReplyCodes == {250, 251, 550, 554, 450, 421, 502, 0}

\* RCPT reply codes of the sessions whose QUIT the server then refuses
QuitRefusedCodes == {250, 550}

\* What one port of one host does with one SMTP session.  tcp: the socket
\* was connected; greeted: the constructor got the 220 greeting, so the with
\* block was entered.  kind is "reply" when the return statement completed,
\* "quit_error" when RCPT was answered and the QUIT that leaving the with
\* block sends got a reply other than 221 (smtplib raises
\* SMTPResponseException, which the last except clause catches), and
\* otherwise the except clause that caught the exception.
PortAttempts ==
    {[kind |-> "reply", code |-> c, tcp |-> TRUE, greeted |-> TRUE] : c \in ReplyCodes}
    \cup {[kind |-> "quit_error", code |-> c, tcp |-> TRUE, greeted |-> TRUE] :
            c \in QuitRefusedCodes}
    \cup {[kind |-> "connect_error", code |-> 0, tcp |-> t, greeted |-> FALSE] :
            t \in BOOLEAN}
    \cup {[kind |-> "disconnected", code |-> 0, tcp |-> TRUE, greeted |-> g] :
            g \in BOOLEAN}
    \cup {[kind |-> k, code |-> 0, tcp |-> g, greeted |-> g] :
            k \in {"timeout", "error"}, g \in BOOLEAN}

\* Sockets an attempt leaves open.  The with statement closes the socket on
\* every way out of the block (SMTP.__exit__ ends in finally: self.close()),
\* and the constructor closes it itself when the greeting fails.
\* faulty variant of ClosedOnExit: the socket is closed by the return path only
ClosedOnReturnOnly(attempt) == attempt.kind = "reply"

ClosedOnExit(attempt) == TRUE

StillOpen(attempt) == IF attempt.tcp /\ ~ClosedOnExit(attempt) THEN 1 ELSE 0

\* How a port attempt ended: with the return statement, with an exception
\* raised after the server's greeting, or without reaching the server
AttemptClass(attempt) ==
    IF attempt.kind = "reply" THEN "returned"
    ELSE IF attempt.greeted THEN "raised_in_session"
    ELSE "not_reached"

\* the RCPT command of the attempt was answered
RcptAnswered(attempt) == attempt.kind \in {"reply", "quit_error"}

\* The history of smtp_try_rcpt calls after one port attempt: the call is
\* entered on its first port, and the components accepted, code and
\* connected of its outcome are known when it returns (ret is Some(outcome)).
Called(calls, rcpt, host, i, ret) ==
    LET entered == IF i = 1
                   THEN Append(calls, [rcpt |-> rcpt, host |-> host, accepted |-> FALSE,
                                       code |-> None, connected |-> FALSE])
                   ELSE calls
    IN  IF ret = None THEN entered
        ELSE [entered EXCEPT ![Len(entered)].accepted = ret[1].accepted,
                             ![Len(entered)].code = ret[1].code,
                             ![Len(entered)].connected = ret[1].connected]

\* no call of smtp_try_rcpt has been made
NoCall == [tried |-> 0, first_reply |-> None, returned |-> FALSE]

\* The port loop of the latest smtp_try_rcpt call after one port attempt:
\* tried counts the ports tried, first_reply is the position of the first
\* port whose session got an answer to RCPT with the code of that answer,
\* returned tells that the call has returned (ret is Some(outcome)).
PortLoop(log, i, attempt, ret) ==
    LET from == IF i = 1 THEN NoCall ELSE log
    IN  [tried |-> i,
         first_reply |-> IF from.first_reply = None /\ RcptAnswered(attempt)
                         THEN Some(<<i, attempt.code>>) ELSE from.first_reply,
         returned |-> ret # None]

\* faulty variant of ExitCode: a hard reject exits like an unknown address
ExitCodeRejectAsUnknown(status) ==
    IF status = "deliverable" THEN 0
    ELSE IF status \in {"invalid_syntax", "invalid_domain"} THEN 1
    ELSE 2

\* sys.exit at the end of the check command
ExitCode(status) ==
    IF status = "deliverable" THEN 0
    ELSE IF status \in {"invalid_syntax", "invalid_domain", "undeliverable"} THEN 1
    ELSE 2

----------------------------------------------------------------------------
(* State *)

VARIABLES
    pc,               \* position of the check_email call
    email,            \* argument email
    max_mx,           \* argument max_mx
    ports,            \* argument ports, then the local ports
    normalized,       \* locals of check_email
    domain,
    domain_has_mx,
    mx_hosts,
    deliverable,
    smtp_connectable,
    rcpt_code,
    is_catch_all,
    host_i,           \* index in mx_hosts of the host being probed
    port_i,           \* index in ports of the port smtp_try_rcpt tries next
    result,           \* the EmailValidationResult returned, None before
    dns_calls,        \* history: the lookups made, in order
    smtp_calls,       \* history: the calls of smtp_try_rcpt, in order
    mx,               \* local mx of check_email: the (preference, host) pairs
    open_conns,       \* sockets the probes opened and have not closed
    real_seen,        \* history: how the port attempts of the real pass ended
    exit_code,        \* exit status of the CLI check command, None before
    last_call,        \* history: the port loop of the latest smtp_try_rcpt call
    b_pc,             \* position of the main thread of a batch run
    b_kind,           \* which batch runner runs
    b_emails,         \* the batch: addresses in input order
    b_conc,           \* the concurrency option
    b_next,           \* index of the next address to submit
    b_queue,          \* work queue of the thread pool (indices in b_emails)
    b_threads,        \* worker threads the pool has started
    b_idle,           \* the pool's idle semaphore
    b_running,        \* addresses whose do_one is executing
    b_done,           \* completed futures: records [task, status]
    b_results,        \* results taken by the main thread, in completion order
    b_counts,         \* the summary counters
    b_stored,         \* addresses persisted by _store_record
    d_pc,             \* position of the pair of check_email runs
    d_in,             \* their common argument values and environment
    d_probes,         \* the random probe local parts drawn, one per run
    d_results,        \* the results returned, one per run
    f_pc,             \* position of a call of one of the pure functions
    f_in,             \* its argument values
    f_out             \* what it returned

checkVars == <<pc, email, max_mx, ports, normalized, domain, domain_has_mx, mx_hosts,
               deliverable, smtp_connectable, rcpt_code, is_catch_all, host_i, port_i,
               result, dns_calls, smtp_calls, mx, open_conns, real_seen, exit_code,
               last_call>>

batchVars == <<b_pc, b_kind, b_emails, b_conc, b_next, b_queue, b_threads, b_idle,
               b_running, b_done, b_results, b_counts, b_stored>>

detVars == <<d_pc, d_in, d_probes, d_results>>

funVars == <<f_pc, f_in, f_out>>

vars == <<checkVars, batchVars, detVars, funVars>>

ZeroCounts == [deliverable |-> 0, undeliverable |-> 0, unknown |-> 0, invalid |-> 0]

\* no batch is running
BatchIdle ==
    /\ b_pc = "idle"
    /\ b_kind = "none"
    /\ b_emails = <<>>
    /\ b_conc = 0
    /\ b_next = 1
    /\ b_queue = <<>>
    /\ b_threads = 0
    /\ b_idle = 0
    /\ b_running = {}
    /\ b_done = {}
    /\ b_results = <<>>
    /\ b_counts = ZeroCounts
    /\ b_stored = {}

\* no pure function is called
FunIdle ==
    /\ f_pc = "idle"
    /\ f_in = <<>>
    /\ f_out = <<>>

\* no pair of runs is compared
DetIdle ==
    /\ d_pc = "idle"
    /\ d_in = <<>>
    /\ d_probes = <<>>
    /\ d_results = <<>>

\* no single check_email call is followed
CheckIdle ==
    /\ pc = "idle"
    /\ email = <<>>
    /\ max_mx = 0
    /\ ports = <<>>
    /\ normalized = None
    /\ domain = None
    /\ domain_has_mx = FALSE
    /\ mx_hosts = <<>>
    /\ deliverable = None
    /\ smtp_connectable = FALSE
    /\ rcpt_code = None
    /\ is_catch_all = None
    /\ host_i = 1
    /\ port_i = 1
    /\ result = None
    /\ dns_calls = <<>>
    /\ smtp_calls = <<>>
    /\ mx = <<>>
    /\ open_conns = 0
    /\ real_seen = {}
    /\ exit_code = None
    /\ last_call = NoCall

Init ==
    /\ pc = "call"
    /\ email \in SampleEmails
    /\ max_mx \in MaxMxValues
    /\ ports \in PortsArgs
    /\ normalized = None
    /\ domain = None
    /\ domain_has_mx = FALSE
    /\ mx_hosts = <<>>
    /\ deliverable = None
    /\ smtp_connectable = FALSE
    /\ rcpt_code = None
    /\ is_catch_all = None
    /\ host_i = 1
    /\ port_i = 1
    /\ result = None
    /\ dns_calls = <<>>
    /\ smtp_calls = <<>>
    /\ mx = <<>>
    /\ open_conns = 0
    /\ real_seen = {}
    /\ exit_code = None
    /\ last_call = NoCall
    /\ BatchIdle
    /\ DetIdle
    /\ FunIdle

\* ports = ports or [25]; normalize_email; is_valid_syntax; the two early
\* returns on a syntax failure
CheckSyntax ==
    /\ pc = "call"
    /\ LET n == normalize_email(email)
           syn == IF n[1] = None THEN <<FALSE, Some("missing_at")>>
                  ELSE is_valid_syntax(n[1][1])
       IN  /\ ports' = IF ports = <<>> THEN <<DefaultPort>> ELSE ports
           /\ normalized' = n[1]
           /\ domain' = n[3]
           /\ IF syn[1]
              THEN pc' = "dns" /\ result' = None
              ELSE /\ pc' = "done"
                   /\ result' = Some(SyntaxFailure(email, n[1], n[3], syn[2]))
    /\ UNCHANGED <<email, max_mx, domain_has_mx, mx_hosts, deliverable,
                   smtp_connectable, rcpt_code, is_catch_all, host_i, port_i,
                   dns_calls, smtp_calls, mx, open_conns, real_seen, exit_code,
                   last_call,
                   batchVars, detVars, funVars>>

\* mx = nslookup_mx(...); domain_has_mx; mx_hosts = [...][:max_mx]
LookupMX ==
    /\ pc = "dns"
    /\ \E answer \in MxAnswers :
         LET found == nslookup_mx(answer)
             hosts == MxHostsOf(found, max_mx)
         IN  /\ mx' = found
             /\ domain_has_mx' = (Len(found) > 0)
             /\ mx_hosts' = hosts
             /\ pc' = IF hosts = <<>> THEN "resolve_a" ELSE "real"
    /\ dns_calls' = Append(dns_calls, "mx")
    /\ UNCHANGED <<email, max_mx, ports, normalized, domain, deliverable,
                   smtp_connectable, rcpt_code, is_catch_all, host_i, port_i,
                   result, smtp_calls, open_conns, real_seen, exit_code, last_call,
                   batchVars, detVars, funVars>>

\* the fallback: addrs = resolve_a(domain); invalid_domain when there is
\* none, else mx_hosts = [domain]
ResolveA ==
    /\ pc = "resolve_a"
    /\ \E answer \in AAnswers :
         IF resolve_a(answer) = <<>>
         THEN /\ pc' = "done"
              /\ result' = Some(DomainFailure(email, normalized, domain))
              /\ UNCHANGED mx_hosts
         ELSE /\ pc' = "real"
              /\ mx_hosts' = <<domain[1]>>
              /\ UNCHANGED result
    /\ dns_calls' = Append(dns_calls, "a")
    /\ UNCHANGED <<email, max_mx, ports, normalized, domain, domain_has_mx,
                   deliverable, smtp_connectable, rcpt_code, is_catch_all,
                   host_i, port_i, smtp_calls, mx, open_conns, real_seen,
                   exit_code, last_call,
                   batchVars, detVars, funVars>>

\* One port attempt of smtp_try_rcpt(host, ..., normalized, ...) in the loop
\* of the real pass; when smtp_try_rcpt returns, the rest of the loop body,
\* and after the last iteration the test that opens the catch-all pass.
RealPort ==
    /\ pc = "real"
    /\ \E attempt \in PortAttempts :
         LET ret == SmtpPortStep(attempt, port_i, ports)
         IN  /\ smtp_calls' = Called(smtp_calls, "real", mx_hosts[host_i], port_i, ret)
             /\ last_call' = PortLoop(last_call, port_i, attempt, ret)
             /\ open_conns' = open_conns + StillOpen(attempt)
             /\ real_seen' = real_seen \cup {AttemptClass(attempt)}
             /\ IF ret = None
                THEN /\ port_i' = port_i + 1
                     /\ UNCHANGED <<pc, deliverable, smtp_connectable, rcpt_code, host_i>>
                ELSE LET b == RealLoopBody(deliverable, smtp_connectable, rcpt_code, ret[1])
                     IN  /\ port_i' = 1
                         /\ deliverable' = b.deliverable
                         /\ smtp_connectable' = b.smtp_connectable
                         /\ rcpt_code' = b.rcpt_code
                         /\ IF b.brk \/ host_i = Len(mx_hosts)
                            THEN /\ host_i' = 1
                                 /\ pc' = IF CatchAllRuns(b.deliverable)
                                          THEN "catch" ELSE "classify"
                            ELSE /\ host_i' = host_i + 1
                                 /\ UNCHANGED pc
    /\ UNCHANGED <<email, max_mx, ports, normalized, domain, domain_has_mx,
                   mx_hosts, is_catch_all, result, dns_calls, mx, exit_code,
                   batchVars, detVars, funVars>>

\* One port attempt of smtp_try_rcpt(host, ..., probe_addr, ...) in the loop
\* of the catch-all pass; when it returns, the rest of the loop body, and
\* after the loop the default is_catch_all = False.
CatchPort ==
    /\ pc = "catch"
    /\ \E attempt \in PortAttempts :
         LET ret == SmtpPortStep(attempt, port_i, ports)
         IN  /\ smtp_calls' = Called(smtp_calls, "probe", mx_hosts[host_i], port_i, ret)
             /\ last_call' = PortLoop(last_call, port_i, attempt, ret)
             /\ open_conns' = open_conns + StillOpen(attempt)
             /\ IF ret = None
                THEN /\ port_i' = port_i + 1
                     /\ UNCHANGED <<pc, is_catch_all, host_i>>
                ELSE LET b == CatchLoopBody(is_catch_all, ret[1])
                     IN  /\ port_i' = 1
                         /\ IF b.brk \/ host_i = Len(mx_hosts)
                            THEN /\ host_i' = 1
                                 /\ is_catch_all' = CatchDefault(b.is_catch_all)
                                 /\ pc' = "classify"
                            ELSE /\ host_i' = host_i + 1
                                 /\ is_catch_all' = b.is_catch_all
                                 /\ UNCHANGED pc
    /\ UNCHANGED <<email, max_mx, ports, normalized, domain, domain_has_mx,
                   mx_hosts, deliverable, smtp_connectable, rcpt_code, result,
                   dns_calls, mx, real_seen, exit_code, batchVars, detVars, funVars>>

\* the disposable flag, the final status and the final return
Classify ==
    /\ pc = "classify"
    /\ result' = Some(FinalResult(email, normalized, domain, domain_has_mx,
                                  smtp_connectable, deliverable, is_catch_all,
                                  rcpt_code, mx_hosts))
    /\ pc' = "done"
    /\ UNCHANGED <<email, max_mx, ports, normalized, domain, domain_has_mx,
                   mx_hosts, deliverable, smtp_connectable, rcpt_code,
                   is_catch_all, host_i, port_i, dns_calls, smtp_calls, mx,
                   open_conns, real_seen, exit_code, last_call,
                   batchVars, detVars, funVars>>

\* main, command check: the process exits with the code chosen from the
\* status of the result
CliExit ==
    /\ pc = "done"
    /\ pc' = "exited"
    /\ exit_code' = Some(ExitCode(result[1].status))
    /\ UNCHANGED <<email, max_mx, ports, normalized, domain, domain_has_mx,
                   mx_hosts, deliverable, smtp_connectable, rcpt_code,
                   is_catch_all, host_i, port_i, result, dns_calls, smtp_calls,
                   mx, open_conns, real_seen, last_call,
                   batchVars, detVars, funVars>>

Next ==
    CheckSyntax \/ LookupMX \/ ResolveA \/ RealPort \/ CatchPort \/ Classify
    \/ CliExit

Spec == Init /\ [][Next]_vars

----------------------------------------------------------------------------------------------------------------------------------------
(* Batch runners: main (bulk), _run_bulk_records, _run_bulk_emails *)

\* the batch runners: the CLI bulk command, the upload runner, and the
\* list runner without and with streaming
BatchKinds == {"cli", "records", "emails", "stream"}

\* addresses a batch is made of
BatchEmails ==
    { <<"u","@","e","x",".","o","r","g">>,
      <<"a",".",".","b","@","m","o","a","k","t",".","c","o","m">> }

\* values of the concurrency option
ConcValues == 0..MaxConc

\* faulty variant of MaxWorkers: max_workers is not passed and the pool takes the
\* library default
MaxWorkersLibraryDefault(c) == 32

\* max_workers=max(1, concurrency)
MaxWorkers(c) == IF c > 1 THEN c ELSE 1

\* statuses check_email can return for an address, over all the answers of
\* the resolver and of the mail hosts
StatusesOf(em) ==
    LET n == normalize_email(em)
    IN  IF n[1] = None \/ ~is_valid_syntax(n[1][1])[1]
        THEN {"invalid_syntax"}
        ELSE {"invalid_domain", "deliverable", "undeliverable", "unknown"}

\* What do_one can do for an address: return a result with one of the
\* statuses of check_email, or, in the server runners, raise.  check_email
\* itself catches every exception of its lookups and probes; _store_record
\* catches the exceptions of the store, and its handler then writes to
\* sys.stderr outside any try, so a failing store together with a failing
\* stderr write leaves do_one with an exception.
DoOneOutcomes(kind, em) ==
    StatusesOf(em) \cup (IF kind = "cli" THEN {} ELSE {"raised"})

\* faulty variant of TaskEmail: the work item reads the loop variable when it
\* runs, and finds the last address there
TaskEmailLateBound(emails, t) == emails[Len(emails)]

\* the address a submitted work item carries: ex.submit(do_one, e) binds the
\* e of its own iteration
TaskEmail(emails, t) == emails[t]

\* faulty variant of Counted: invalid_domain falls into the final else
CountedDomainAsUnknown(counts, status) ==
    IF status = "deliverable"
    THEN [counts EXCEPT !.deliverable = @ + 1]
    ELSE IF status = "undeliverable"
    THEN [counts EXCEPT !.undeliverable = @ + 1]
    ELSE IF status \in {"invalid_syntax"}
    THEN [counts EXCEPT !.invalid = @ + 1]
    ELSE [counts EXCEPT !.unknown = @ + 1]

\* the counter update of the collecting loops
Counted(counts, status) ==
    IF status = "deliverable"
    THEN [counts EXCEPT !.deliverable = @ + 1]
    ELSE IF status = "undeliverable"
    THEN [counts EXCEPT !.undeliverable = @ + 1]
    ELSE IF status \in {"invalid_syntax", "invalid_domain"}
    THEN [counts EXCEPT !.invalid = @ + 1]
    ELSE [counts EXCEPT !.unknown = @ + 1]

InitBatch ==
    /\ CheckIdle
    /\ DetIdle
    /\ FunIdle
    /\ b_pc = "submit"
    /\ b_kind \in BatchKinds
    /\ b_emails \in SeqsUpTo(BatchEmails, MaxBatch) \ {<<>>}
    /\ b_conc \in ConcValues
    /\ b_next = 1
    /\ b_queue = <<>>
    /\ b_threads = 0
    /\ b_idle = 0
    /\ b_running = {}
    /\ b_done = {}
    /\ b_results = <<>>
    /\ b_counts = ZeroCounts
    /\ b_stored = {}

\* ex.submit(do_one, e) for the next address: the work item is queued, and
\* the pool starts a worker thread when no worker is idle and fewer than
\* max_workers threads exist
Submit ==
    /\ b_pc = "submit"
    /\ b_queue' = Append(b_queue, b_next)
    /\ IF b_idle > 0
       THEN b_idle' = b_idle - 1 /\ UNCHANGED b_threads
       ELSE /\ b_threads' = IF b_threads < MaxWorkers(b_conc)
                            THEN b_threads + 1 ELSE b_threads
            /\ UNCHANGED b_idle
    /\ b_next' = b_next + 1
    /\ b_pc' = IF b_next = Len(b_emails) THEN "collect" ELSE "submit"
    /\ UNCHANGED <<b_kind, b_emails, b_conc, b_running, b_done, b_results,
                   b_counts, b_stored, checkVars, detVars, funVars>>

\* a worker thread that is not running a work item takes the next one from
\* the queue and starts do_one on it
WorkerStart ==
    /\ b_queue # <<>>
    /\ Cardinality(b_running) < b_threads
    /\ b_running' = b_running \cup {Head(b_queue)}
    /\ b_queue' = Tail(b_queue)
    /\ UNCHANGED <<b_pc, b_kind, b_emails, b_conc, b_next, b_threads, b_idle,
                   b_done, b_results, b_counts, b_stored, checkVars, detVars, funVars>>

\* do_one ends: check_email has produced its result and the server runners
\* have stored it, or do_one raised; the future completes (with the payload
\* or with the exception) and the worker becomes idle
WorkerFinish ==
    /\ \E t \in b_running :
         LET em == TaskEmail(b_emails, t)
         IN  \E st \in DoOneOutcomes(b_kind, em) :
                /\ b_running' = b_running \ {t}
                /\ b_done' = b_done \cup {[task |-> t, email |-> em, status |-> st]}
                /\ b_stored' = IF b_kind = "cli" \/ st = "raised"
                               THEN b_stored ELSE b_stored \cup {t}
    /\ b_idle' = b_idle + 1
    /\ UNCHANGED <<b_pc, b_kind, b_emails, b_conc, b_next, b_queue, b_threads,
                   b_results, b_counts, checkVars, detVars, funVars>>

\* one iteration of "for fut in as_completed(...)": the result of a completed
\* future is counted and reported (the streaming runner keeps no counters);
\* after the last one the pool is left.  fut.result() re-raises the
\* exception of a do_one that raised: no runner catches it inside the loop,
\* so the loop is left, and with it the runner (the streaming runner writes
\* an error line first).
Collect ==
    /\ b_pc = "collect"
    /\ \E d \in b_done :
         /\ \A i \in 1..Len(b_results) : b_results[i].task # d.task
         /\ IF d.status = "raised"
            THEN /\ b_pc' = "aborted"
                 /\ UNCHANGED <<b_results, b_counts>>
            ELSE /\ b_results' = Append(b_results, d)
                 /\ b_counts' = IF b_kind = "stream" THEN b_counts
                                ELSE Counted(b_counts, d.status)
                 /\ b_pc' = IF Len(b_results) + 1 = Len(b_emails)
                            THEN "done" ELSE "collect"
    /\ UNCHANGED <<b_kind, b_emails, b_conc, b_next, b_queue, b_threads, b_idle,
                   b_running, b_done, b_stored, checkVars, detVars, funVars>>

\* the streaming runner: writing the line of a completed future raises
\* BrokenPipeError (the client has gone); the runner returns, and leaving the
\* with block waits for the work items already submitted
StreamBroken ==
    /\ b_pc = "collect"
    /\ b_kind = "stream"
    /\ \E d \in b_done :
         /\ d.status # "raised"
         /\ \A i \in 1..Len(b_results) : b_results[i].task # d.task
    /\ b_pc' = "broken"
    /\ UNCHANGED <<b_kind, b_emails, b_conc, b_next, b_queue, b_threads, b_idle,
                   b_running, b_done, b_results, b_counts, b_stored, checkVars, detVars, funVars>>

NextBatch == Submit \/ WorkerStart \/ WorkerFinish \/ Collect \/ StreamBroken

BatchSpec == InitBatch /\ [][NextBatch]_vars

\* C10: in a batch run with concurrency c >= 1, never more than c do_one
\* calls (single-address pipelines) execute at the same time.
C10_AtMostConcurrencyRunning ==
    (b_pc # "idle" /\ b_conc >= 1) => Cardinality(b_running) <= b_conc

C10_Witness ==
    /\ b_conc >= 1
    /\ Cardinality(b_running) = b_conc
    /\ b_queue # <<>>

\* the work items whose result the main thread has reported
Reported == {b_results[i].task : i \in 1..Len(b_results)}

\* the work items whose do_one raised
Raised == {d.task : d \in {x \in b_done : x.status = "raised"}}

\* the number of reported results whose status is in S
NumReported(S) == Cardinality({i \in 1..Len(b_results) : b_results[i].status \in S})

\* C11: whatever the interleaving of the workers, no address is run twice,
\* no result is reported twice, every reported result is the one do_one
\* produced for its work item and carries the address submitted at that
\* position of the batch; and when the runner has finished, every address of
\* the batch has its result.
C11_OneResultPerAddress ==
    /\ \A d1, d2 \in b_done : d1.task = d2.task => d1 = d2
    /\ \A i, j \in 1..Len(b_results) :
          b_results[i].task = b_results[j].task => i = j
    /\ \A i \in 1..Len(b_results) :
          /\ b_results[i] \in b_done
          /\ b_results[i].task \in 1..Len(b_emails)
          /\ b_results[i].email = b_emails[b_results[i].task]
    /\ b_pc = "done" => Reported = 1..Len(b_emails)

C11_Witness ==
    /\ b_pc = "done"
    /\ b_conc = 2
    /\ Len(b_results) = 2
    /\ b_results[1].task = 2
    /\ b_results[1].email # b_results[2].email

\* C12: when a batch run that keeps counters has finished, each counter is
\* the number of results with its status (invalid counts invalid_syntax and
\* invalid_domain together) and the four counters add up to the number of
\* addresses.
C12_CountersPartitionResults ==
    (b_pc = "done" /\ b_kind # "stream") =>
        /\ b_counts.deliverable = NumReported({"deliverable"})
        /\ b_counts.undeliverable = NumReported({"undeliverable"})
        /\ b_counts.unknown = NumReported({"unknown"})
        /\ b_counts.invalid = NumReported({"invalid_syntax", "invalid_domain"})
        /\ b_counts.deliverable + b_counts.undeliverable + b_counts.unknown
              + b_counts.invalid = Len(b_emails)

C12_Witness ==
    /\ b_pc = "done"
    /\ b_kind = "records"
    /\ b_counts.invalid = 2
    /\ NumReported({"invalid_syntax"}) = 1
    /\ NumReported({"invalid_domain"}) = 1

\* C13 as stated: when a batch run has ended and its workers are at rest,
\* every address whose do_one did not raise has had its result reported.
C13_OthersReportedAfterFailure ==
    (b_pc \in {"done", "aborted"} /\ b_queue = <<>> /\ b_running = {}) =>
        \A t \in 1..Len(b_emails) : t \in Reported \cup Raised

\* C14 as stated: once the streaming runner has seen BrokenPipeError, no
\* address that had not started is started.
C14_NoStartAfterCancel ==
    [][b_pc = "broken" => b_running' \subseteq b_running]_vars


----------------------------------------------------------------------------
(* Two runs of check_email in one environment *)

\* local parts random_probe_local can return ("probe_" and 20 random
\* characters): two different draws
DetProbeLocals == {"probe_a", "probe_b"}

\* the recipients a mail host sees: the address under test and the probes
DetRecipients == {"real"} \cup DetProbeLocals

\* what a mail host does with a session for one recipient
DetAttempts ==
    { [kind |-> "reply", code |-> 250, tcp |-> TRUE, greeted |-> TRUE],
      [kind |-> "reply", code |-> 550, tcp |-> TRUE, greeted |-> TRUE],
      [kind |-> "connect_error", code |-> 0, tcp |-> FALSE, greeted |-> FALSE] }

\* the resolver's answers for the domain
DetMxAnswers ==
    { [kind |-> "ok",
       lines |-> << [kind |-> "pref", pref |-> 20, host |-> <<"m","1">>],
                    [kind |-> "host_only", pref |-> 0, host |-> <<"m","2",".">>] >>],
      [kind |-> "not_found", lines |-> <<>>] }

DetAAnswers ==
    { [kind |-> "ok", addrs |-> <<"192.0.2.1">>],
      [kind |-> "error", addrs |-> <<>>] }

\* positions in the candidate list mx_hosts
DetHostPositions == {1, 2}

\* Arguments and environment of a check_email call.  smtp is the behaviour
\* of the mail hosts: what the host at each position of the candidate list
\* does with a session for each recipient, on whichever port.
DetInputs ==
    [ email : BatchEmails, max_mx : {1, 2}, ports : {<<>>},
      mx_answer : DetMxAnswers, a_answer : DetAAnswers,
      smtp : [DetHostPositions \X DetRecipients -> DetAttempts] ]

\* smtp_try_rcpt: the port loop, from the i-th port on
RECURSIVE TryPorts(_, _, _)
TryPorts(attempt, i, port_list) ==
    LET ret == SmtpPortStep(attempt, i, port_list)
    IN  IF ret # None THEN ret[1] ELSE TryPorts(attempt, i + 1, port_list)

\* the loop of the real pass, from the i-th of n hosts on; acc holds the
\* locals deliverable, smtp_connectable, rcpt_code
RECURSIVE RealPass(_, _, _, _, _)
RealPass(smtp, n, port_list, i, acc) ==
    IF i > n THEN acc
    ELSE LET b == RealLoopBody(acc.deliverable, acc.smtp_connectable, acc.rcpt_code,
                               TryPorts(smtp[<<i, "real">>], 1, port_list))
         IN  IF b.brk THEN b ELSE RealPass(smtp, n, port_list, i + 1, b)

\* the loop of the catch-all pass, from the i-th of n hosts on
RECURSIVE CatchPass(_, _, _, _, _, _)
CatchPass(smtp, probe, n, port_list, i, ca) ==
    IF i > n THEN ca
    ELSE LET b == CatchLoopBody(ca, TryPorts(smtp[<<i, probe>>], 1, port_list))
         IN  IF b.brk THEN b.is_catch_all
             ELSE CatchPass(smtp, probe, n, port_list, i + 1, b.is_catch_all)

\* check_email as a function of its arguments, the environment and the
\* probe local part random_probe_local returns
DetCheckEmail(inp, probe) ==
    LET n == normalize_email(inp.email)
        syn == IF n[1] = None THEN <<FALSE, Some("missing_at")>>
               ELSE is_valid_syntax(n[1][1])
        port_list == IF inp.ports = <<>> THEN <<DefaultPort>> ELSE inp.ports
        found == nslookup_mx(inp.mx_answer)
        sliced == MxHostsOf(found, inp.max_mx)
        hosts == IF sliced # <<>> THEN sliced
                 ELSE IF resolve_a(inp.a_answer) = <<>> THEN <<>>
                 ELSE <<n[3][1]>>
        real == RealPass(inp.smtp, Len(hosts), port_list, 1,
                         [deliverable |-> None, smtp_connectable |-> FALSE,
                          rcpt_code |-> None, brk |-> FALSE])
        ca == IF CatchAllRuns(real.deliverable)
              THEN CatchDefault(CatchPass(inp.smtp, probe, Len(hosts), port_list, 1, None))
              ELSE None
    IN  IF ~syn[1] THEN SyntaxFailure(inp.email, n[1], n[3], syn[2])
        ELSE IF hosts = <<>> THEN DomainFailure(inp.email, n[1], n[3])
        ELSE FinalResult(inp.email, n[1], n[3], Len(found) > 0, real.smtp_connectable,
                         real.deliverable, ca, real.rcpt_code, hosts)

InitDet ==
    /\ CheckIdle
    /\ BatchIdle
    /\ FunIdle
    /\ d_pc = "first"
    /\ d_in \in DetInputs
    /\ d_probes = <<>>
    /\ d_results = <<>>

\* the first call: random_probe_local draws a local part
FirstRun ==
    /\ d_pc = "first"
    /\ \E p \in DetProbeLocals :
         /\ d_probes' = <<p>>
         /\ d_results' = <<DetCheckEmail(d_in, p)>>
    /\ d_pc' = "second"
    /\ UNCHANGED <<d_in, checkVars, batchVars, funVars>>

\* the second call, with the same arguments in the same environment
SecondRun ==
    /\ d_pc = "second"
    /\ \E p \in DetProbeLocals :
         /\ d_probes' = Append(d_probes, p)
         /\ d_results' = Append(d_results, DetCheckEmail(d_in, p))
    /\ d_pc' = "ran"
    /\ UNCHANGED <<d_in, checkVars, batchVars, funVars>>

NextDet == FirstRun \/ SecondRun

DetSpec == InitDet /\ [][NextDet]_vars

\* the hosts answer the two probe recipients drawn alike
ProbesAnsweredAlike ==
    \A i \in DetHostPositions :
        d_in.smtp[<<i, d_probes[1]>>] = d_in.smtp[<<i, d_probes[2]>>]

\* the fields of a result that the real pass and the lookups decide
RealEvidence(r) ==
    <<r.is_valid_syntax, r.domain_has_mx, r.smtp_connectable, r.is_deliverable,
      r.is_disposable, r.mx_hosts>>

----------------------------------------------------------------------------
(* The MX candidate list as a function of the parsed records *)

\* longest list of parsed records
MaxRecords == 3

\* (preference, host) pairs the two patterns of nslookup_mx can yield
MxRecords ==
    { <<5, <<"m","1">>>>, <<20, <<"m","1">>>>, <<20, <<"m","2">>>>,
      <<10, <<"m","2">>>>, <<10, <<"m","3">>>> }

InitMx ==
    /\ CheckIdle
    /\ BatchIdle
    /\ DetIdle
    /\ f_pc = "records"
    /\ f_in \in [records : SeqsUpTo(MxRecords, MaxRecords), max_mx : MaxMxValues]
    /\ f_out = <<>>

\* nslookup_mx from the parsed records on: the dict best and the sort
Deduplicate ==
    /\ f_pc = "records"
    /\ f_out' = [mx |-> SortedByPref(DedupBest(f_in.records, <<>>)), hosts |-> <<>>]
    /\ f_pc' = "sorted"
    /\ UNCHANGED <<f_in, checkVars, batchVars, detVars>>

\* check_email: mx_hosts = [host for _, host in mx][:max_mx]
Truncate ==
    /\ f_pc = "sorted"
    /\ f_out' = [f_out EXCEPT !.hosts = MxHostsOf(f_out.mx, f_in.max_mx)]
    /\ f_pc' = "truncated"
    /\ UNCHANGED <<f_in, checkVars, batchVars, detVars>>

NextMx == Deduplicate \/ Truncate

MxSpec == InitMx /\ [][NextMx]_vars

\* positions of a host in the parsed records
PositionsOf(host) == {i \in 1..Len(f_in.records) : f_in.records[i][2] = host}

\* position of its first appearance
FirstPosition(host) == CHOOSE i \in PositionsOf(host) : \A j \in PositionsOf(host) : i <= j

\* the list holds each host of the records once, with its lowest preference,
\* ascending by preference and, among equal preferences, in order of first
\* appearance
DedupedAndSorted ==
    LET list == f_out.mx
    IN  /\ {list[i][2] : i \in 1..Len(list)} = {f_in.records[i][2] : i \in 1..Len(f_in.records)}
        /\ \A i, j \in 1..Len(list) : list[i][2] = list[j][2] => i = j
        /\ \A i \in 1..Len(list) :
              /\ \E k \in PositionsOf(list[i][2]) : f_in.records[k][1] = list[i][1]
              /\ \A k \in PositionsOf(list[i][2]) : list[i][1] <= f_in.records[k][1]
        /\ \A i, j \in 1..Len(list) :
              i < j => \/ list[i][1] < list[j][1]
                       \/ /\ list[i][1] = list[j][1]
                          /\ FirstPosition(list[i][2]) < FirstPosition(list[j][2])

\* C27 as stated: the candidate list holds each host once with its minimum
\* preference, is sorted ascending by preference with ties in order of first
\* appearance, and mx_hosts is its first max_mx entries (none when max_mx is
\* not positive, all when there are fewer).
C27_CandidatesDedupedSortedTruncated ==
    f_pc = "truncated" =>
        /\ DedupedAndSorted
        /\ LET want == IF f_in.max_mx < 0 THEN 0
                       ELSE IF f_in.max_mx > Len(f_out.mx) THEN Len(f_out.mx)
                       ELSE f_in.max_mx
           IN  /\ Len(f_out.hosts) = want
               /\ \A i \in 1..want : f_out.hosts[i] = f_out.mx[i][2]


----------------------------------------------------------------------------
(* Password hashing: hash_password, verify_password (storage.py) *)

\* longest password tried
MaxPwLen == 2

\* block size of SHA-256 in bytes: HMAC fits its key to this length
HmacBlockSize == 64

\* the iteration count hash_password writes
HashIterations == 120000

\* characters of the passwords; "NUL" is the character U+0000, whose UTF-8
\* encoding is the zero byte
PwChars == {"a", "b", "NUL"}

Passwords == SeqsUpTo(PwChars, MaxPwLen)

\* values os.urandom(16) returns
Salts == {<<"s1">>, <<"s2">>}

\* The key HMAC works with: a key longer than the block is replaced by its
\* digest, and the key is then padded with zero bytes up to the block size.
HmacKey(pw) ==
    LET k == IF Len(pw) > HmacBlockSize THEN <<"sha256", pw>> ELSE pw
    IN  k \o [i \in 1..(HmacBlockSize - Len(k)) |-> "NUL"]

\* hashlib.pbkdf2_hmac("sha256", password, salt, iterations): the derived
\* key, a value determined by the HMAC key, the salt and the iteration
\* count and different for different triples
Pbkdf2(pw, salt, iterations) == <<HmacKey(pw), salt, iterations>>

\* A stored string is a sequence of pieces: <<"text", t>> for literal text,
\* <<"hex", b>> for the hexadecimal writing of the bytes b, and Dollar.
Dollar == <<"sep", "$">>

\* hash_password(password) with the salt os.urandom returned
hash_password(pw, salt) ==
    << <<"text", "pbkdf2">>, Dollar, <<"text", "120000">>, Dollar,
       <<"hex", salt>>, Dollar, <<"hex", Pbkdf2(pw, salt, HashIterations)>> >>

\* stored.split("$", 3): the parts before the first three separators and
\* the rest
RECURSIVE SplitDollar(_, _)
SplitDollar(str, maxsplit) ==
    LET at == {i \in 1..Len(str) : str[i] = Dollar}
        i == CHOOSE k \in at : \A j \in at : k <= j
    IN  IF maxsplit = 0 \/ at = {} THEN <<str>>
        ELSE <<SubSeq(str, 1, i - 1)>> \o SplitDollar(SubSeq(str, i + 1, Len(str)), maxsplit - 1)

\* bytes.fromhex(part): Some(bytes), or None when it raises ValueError
FromHex(part) ==
    IF part = <<>> THEN Some(<<>>)
    ELSE IF Len(part) = 1 /\ part[1][1] = "hex" THEN Some(part[1][2])
    ELSE None

\* int(part): Some(n), or None when it raises ValueError
IntOf(part) ==
    IF Len(part) = 1 /\ part[1][1] = "text"
    THEN (IF part[1][2] = "120000" THEN Some(HashIterations)
          ELSE IF part[1][2] = "1" THEN Some(1)
          ELSE IF part[1][2] = "0" THEN Some(0)
          ELSE None)
    ELSE None

\* verify_password(password, stored); every exception (unpacking the split,
\* fromhex, int, pbkdf2_hmac with iterations < 1) ends in return False
verify_password(pw, stored) ==
    LET parts == SplitDollar(stored, 3)
    IN  IF Len(parts) # 4 THEN FALSE
        ELSE IF ~(Len(parts[1]) = 1 /\ parts[1][1] = <<"text", "pbkdf2">>) THEN FALSE
        ELSE IF FromHex(parts[3]) = None \/ FromHex(parts[4]) = None THEN FALSE
        ELSE IF IntOf(parts[2]) = None THEN FALSE
        ELSE IF IntOf(parts[2])[1] < 1 THEN FALSE
        ELSE Pbkdf2(pw, FromHex(parts[3])[1], IntOf(parts[2])[1]) = FromHex(parts[4])[1]

\* stored strings that are not of the form pbkdf2$<iterations>$<salt hex>$<hash hex>
MalformedStored ==
    { <<>>,
      << <<"text", "pbkdf2">> >>,
      << <<"text", "pbkdf2">>, Dollar, <<"text", "120000">>, Dollar, <<"hex", <<"s1">>>> >>,
      << <<"text", "md5">>, Dollar, <<"text", "1">>, Dollar, <<"hex", <<"s1">>>>, Dollar,
         <<"hex", <<"s1">>>> >>,
      << <<"text", "pbkdf2">>, Dollar, <<"text", "many">>, Dollar, <<"hex", <<"s1">>>>,
         Dollar, <<"hex", <<"s1">>>> >>,
      << <<"text", "pbkdf2">>, Dollar, <<"text", "0">>, Dollar, <<"hex", <<"s1">>>>,
         Dollar, <<"hex", <<"s1">>>> >>,
      << <<"text", "pbkdf2">>, Dollar, <<"text", "120000">>, Dollar, <<"text", "zz">>,
         Dollar, <<"hex", <<"s1">>>> >>,
      << <<"text", "pbkdf2">>, Dollar, <<"text", "120000">>, Dollar, <<"hex", <<"s1">>>>,
         Dollar, <<"hex", <<"s1">>>>, Dollar, <<"hex", <<"s1">>>> >> }

InitHash ==
    /\ CheckIdle
    /\ BatchIdle
    /\ DetIdle
    /\ f_pc = "password"
    /\ f_in \in [p : Passwords, q : Passwords, bad : MalformedStored]
    /\ f_out = <<>>

\* hash_password(p): os.urandom draws the salt
HashPassword ==
    /\ f_pc = "password"
    /\ \E salt \in Salts :
         f_out' = [stored |-> hash_password(f_in.p, salt),
                   same |-> FALSE, other |-> FALSE, malformed |-> FALSE]
    /\ f_pc' = "hashed"
    /\ UNCHANGED <<f_in, checkVars, batchVars, detVars>>

\* verify_password on the stored hash with p, with q, and on the malformed
\* string with p
VerifyPasswords ==
    /\ f_pc = "hashed"
    /\ f_out' = [f_out EXCEPT !.same = verify_password(f_in.p, f_out.stored),
                              !.other = verify_password(f_in.q, f_out.stored),
                              !.malformed = verify_password(f_in.p, f_in.bad)]
    /\ f_pc' = "verified"
    /\ UNCHANGED <<f_in, checkVars, batchVars, detVars>>

NextHash == HashPassword \/ VerifyPasswords

HashSpec == InitHash /\ [][NextHash]_vars

\* C30 as stated: verify_password(p, hash_password(p)) is true,
\* verify_password(q, hash_password(p)) is false for every q different from
\* p, and verify_password returns false on a stored string that is not of
\* the form pbkdf2$<iterations>$<salt hex>$<hash hex>.
C30_HashRoundTrip ==
    f_pc = "verified" =>
        /\ f_out.same
        /\ f_in.q # f_in.p => ~f_out.other
        /\ ~f_out.malformed

----------------
(* Properties of the results of check_email *)

Returned == result # None
R == result[1]

\* the hosts smtp_try_rcpt was called on with the given recipient, in call order
RECURSIVE CalledHosts(_, _)
CalledHosts(calls, rcpt) ==
    IF calls = <<>> THEN <<>>
    ELSE IF Head(calls).rcpt = rcpt
    THEN <<Head(calls).host>> \o CalledHosts(Tail(calls), rcpt)
    ELSE CalledHosts(Tail(calls), rcpt)

\* C1: a result with status invalid_syntax has is_valid_syntax false, was
\* produced without any DNS lookup or SMTP probe, and has an empty mx_hosts.
C1_InvalidSyntaxNoNetwork ==
    (Returned /\ R.status = "invalid_syntax") =>
        /\ R.is_valid_syntax = FALSE
        /\ dns_calls = <<>>
        /\ smtp_calls = <<>>
        /\ R.mx_hosts = <<>>

C1_Witness ==
    /\ Returned
    /\ R.status = "invalid_syntax"
    /\ R.reason = Some("local_dots")

\* C2: a result with status invalid_domain has is_valid_syntax true and
\* domain_has_mx false, the MX lookup returned no record and the A/AAAA
\* lookup returned no address, whatever max_mx is.
C2_InvalidDomainMeansNoMx ==
    (Returned /\ R.status = "invalid_domain") =>
        /\ R.is_valid_syntax = TRUE
        /\ R.domain_has_mx = FALSE
        /\ domain_has_mx = FALSE
        /\ dns_calls = <<"mx", "a">>

\* C3: a result with status deliverable has is_deliverable true and
\* is_catch_all false (neither null nor true).
C3_DeliverableNotCatchAll ==
    (Returned /\ R.status = "deliverable") =>
        /\ R.is_deliverable = Some(TRUE)
        /\ R.is_catch_all = Some(FALSE)

C3_Witness ==
    /\ Returned
    /\ R.status = "deliverable"
    /\ CalledHosts(smtp_calls, "probe") # <<>>

\* C4: a result with smtp_connectable false and is_deliverable null has status
\* unknown and reason smtp_unreachable.
C4_UnreachableIsUnknown ==
    (Returned /\ R.smtp_connectable = FALSE /\ R.is_deliverable = None) =>
        /\ R.status = "unknown"
        /\ R.reason = <<"smtp_unreachable">>

C4_Witness ==
    /\ Returned
    /\ R.smtp_connectable = FALSE
    /\ R.is_deliverable = None
    /\ Len(smtp_calls) >= 2

\* C5: mx_hosts of a result is exactly the sequence of hosts smtp_try_rcpt was
\* called on for the real recipient, in call order.
C5_MxHostsAreProbedHosts ==
    Returned => R.mx_hosts = CalledHosts(smtp_calls, "real")

\* C6: mx_hosts of a result is non-empty if and only if smtp_try_rcpt was
\* called at least once for the address.
C6_MxHostsIffProbed ==
    Returned => ((R.mx_hosts # <<>>) <=> (smtp_calls # <<>>))

C6_Witness ==
    /\ Returned
    /\ R.mx_hosts # <<>>
    /\ smtp_calls # <<>>
    /\ R.domain_has_mx = FALSE

\* the reason is rcpt_<code> for the recorded reply code, or the fallback
RcptOr(reason, fallback) ==
    \/ reason = <<fallback>>
    \/ /\ Len(reason) = 2
       /\ reason[1] = "rcpt_"
       /\ rcpt_code = Some(reason[2])

\* C7: for an address that passed syntax and DNS resolution, (status, reason)
\* is that of the first matching row of the classifier table; hence unknown
\* with accepts_all implies is_deliverable true and is_catch_all true.
C7_ClassifierTable ==
    (Returned /\ R.is_valid_syntax /\ R.status # "invalid_domain") =>
        /\ IF ~R.smtp_connectable /\ R.is_deliverable = None
           THEN R.status = "unknown" /\ R.reason = <<"smtp_unreachable">>
           ELSE IF R.is_deliverable = Some(TRUE) /\ R.is_catch_all = Some(TRUE)
           THEN R.status = "unknown" /\ R.reason = <<"accepts_all">>
           ELSE IF R.is_deliverable = Some(TRUE)
           THEN R.status = "deliverable" /\ R.reason = None
           ELSE IF R.is_deliverable = Some(FALSE)
           THEN R.status = "undeliverable" /\ RcptOr(R.reason, "hard_fail")
           ELSE R.status = "unknown" /\ RcptOr(R.reason, "temp_fail")
        /\ (R.status = "unknown" /\ R.reason = <<"accepts_all">>) =>
               (R.is_deliverable = Some(TRUE) /\ R.is_catch_all = Some(TRUE))

C7_Witness ==
    /\ Returned
    /\ R.status = "undeliverable"
    /\ R.reason = <<"rcpt_", 450>>

\* C8: the catch-all pass runs only when some host accepted the real
\* recipient: no probe-address call is made otherwise, and in every result
\* is_catch_all is non-null exactly when is_deliverable is true.
C8_CatchAllOnlyAfterAccept ==
    /\ (CalledHosts(smtp_calls, "probe") # <<>>) => deliverable = Some(TRUE)
    /\ Returned => ((R.is_catch_all # None) <=> (R.is_deliverable = Some(TRUE)))

C8_Witness ==
    /\ Returned
    /\ R.is_catch_all = Some(TRUE)
    /\ Len(CalledHosts(smtp_calls, "probe")) = 2

\* the ascii_domain of the address given to check_email
AsciiDomainOf(em) == normalize_email(em)[3][1]

\* C9 as stated: in every result of an address that has a domain,
\* is_disposable equals the membership of ascii_domain in the disposable set.
C9_DisposableOnlyDomain ==
    (Returned /\ HasChar(email, "@")) =>
        R.is_disposable = Some(AsciiDomainOf(email) \in DISPOSABLE_DOMAINS)

\* C9 amended: is_disposable is null in the results with status invalid_syntax
\* or invalid_domain, and in every other result it equals the membership of
\* ascii_domain in the disposable set.
C9_DisposableWhenClassified ==
    Returned =>
        IF R.status \in {"invalid_syntax", "invalid_domain"}
        THEN R.is_disposable = None
        ELSE R.is_disposable = Some(AsciiDomainOf(email) \in DISPOSABLE_DOMAINS)

C9_Witness ==
    /\ Returned
    /\ R.is_disposable = Some(TRUE)
    /\ email[1] = "v"
    /\ R.smtp_connectable = FALSE

\* the calls of smtp_try_rcpt made in the real pass, in call order
RealCalls == SelectSeq(smtp_calls, LAMBDA c : c.rcpt = "real")

\* the set of hosts smtp_try_rcpt was called on with the given recipient
HostsProbed(rcpt) ==
    LET called == CalledHosts(smtp_calls, rcpt)
    IN  {called[i] : i \in 1..Len(called)}

\* C15 as stated: when the port attempts of the real pass all ended with an
\* exception raised inside the SMTP session (after the greeting), the result
\* has status unknown and reason temp_fail.
C15_SessionExceptionIsTempFail ==
    (Returned /\ real_seen = {"raised_in_session"}) =>
        (R.status = "unknown" /\ R.reason = <<"temp_fail">>)

C18_ExitCodeByStatus ==
    exit_code # None =>
        /\ R.status \in {"deliverable", "invalid_syntax", "invalid_domain",
                          "undeliverable", "unknown"}
        /\ (R.status = "deliverable") = (exit_code[1] = 0)
        /\ (R.status \in {"invalid_syntax", "invalid_domain", "undeliverable"})
               = (exit_code[1] = 1)
        /\ (R.status = "unknown") = (exit_code[1] = 2)

C18_Witness ==
    /\ exit_code = Some(1)
    /\ R.status = "undeliverable"

\* C19 as stated: in each pass (real recipient, probe recipient) the number
\* of distinct hosts smtp_try_rcpt is called on never exceeds max_mx (no host
\* at all when max_mx is zero or negative).
C19_AtMostMaxMxHostsPerPass ==
    \A rcpt \in {"real", "probe"} :
        Cardinality(HostsProbed(rcpt)) <= (IF max_mx > 0 THEN max_mx ELSE 0)

\* C20: the MX records are kept in ascending preference; the candidate hosts
\* are the first of them in that order; the real pass calls smtp_try_rcpt on
\* the candidates in order, once each, without skipping; and a call that
\* returned accepted = true is the last call of the real pass.
C20_PreferenceOrderStopAtAccept ==
    LET called == CalledHosts(smtp_calls, "real")
    IN  /\ \A i, j \in 1..Len(mx) : i < j => mx[i][1] <= mx[j][1]
        /\ "a" \notin {dns_calls[i] : i \in 1..Len(dns_calls)} =>
               /\ Len(mx_hosts) <= Len(mx)
               /\ \A i \in 1..Len(mx_hosts) : mx_hosts[i] = mx[i][2]
        /\ Len(called) <= Len(mx_hosts)
        /\ \A i \in 1..Len(called) : called[i] = mx_hosts[i]
        /\ \A i \in 1..Len(RealCalls) : RealCalls[i].accepted => i = Len(RealCalls)

C20_Witness ==
    /\ Returned
    /\ Len(mx) = 2
    /\ mx[1][1] < mx[2][1]
    /\ Len(mx_hosts) = 2
    /\ Len(RealCalls) = 1
    /\ RealCalls[1].accepted

\* the result went through the real pass (neither early return was taken)
Probed == Returned /\ R.status \notin {"invalid_syntax", "invalid_domain"}

\* some call of the real pass returned accepted / a hard negative code
RealAccepted == \E i \in 1..Len(RealCalls) : RealCalls[i].accepted

RealHardRejected ==
    \E i \in 1..Len(RealCalls) :
        RealCalls[i].code # None /\ RealCalls[i].code[1] \in HardCodes

\* C21: after the real pass is_deliverable is true iff some host accepted
\* (returned code 250 or 251); otherwise it is false iff some probed host
\* returned a code in 550..554, whatever later hosts returned; otherwise null.
C21_DeliverableFromRealPass ==
    Probed =>
        /\ RealAccepted = (\E i \in 1..Len(RealCalls) :
                              RealCalls[i].code # None
                              /\ RealCalls[i].code[1] \in AcceptCodes)
        /\ R.is_deliverable = (IF RealAccepted THEN Some(TRUE)
                               ELSE IF RealHardRejected THEN Some(FALSE)
                               ELSE None)

C21_Witness ==
    /\ Probed
    /\ Len(RealCalls) = 2
    /\ RealCalls[1].code = Some(550)
    /\ RealCalls[2].code = Some(450)
    /\ R.is_deliverable = Some(FALSE)

\* positions of the calls of the real pass that returned a reply code
RealCoded == {i \in 1..Len(RealCalls) : RealCalls[i].code # None}

\* the reply code returned by the last of them
LastRealCode == RealCalls[CHOOSE i \in RealCoded : \A j \in RealCoded : j <= i].code[1]

ProbeCalls == SelectSeq(smtp_calls, LAMBDA c : c.rcpt = "probe")

\* a call returned a hard negative code
HardRejected(c) == c.code # None /\ c.code[1] \in HardCodes

\* C23: when the catch-all pass ran, is_catch_all is true iff a host
\* accepted the random recipient and false otherwise (a hard negative, or
\* only soft failures and unreachable hosts); the pass stops at the first
\* host that accepts or returns a hard negative, so such a host is the last
\* one called, and the hosts called are the first candidates in order.
C23_CatchAllDecision ==
    (Probed /\ Len(ProbeCalls) > 0) =>
        /\ R.is_catch_all =
              Some(\E i \in 1..Len(ProbeCalls) : ProbeCalls[i].accepted)
        /\ \A i \in 1..Len(ProbeCalls) :
              (ProbeCalls[i].accepted \/ HardRejected(ProbeCalls[i]))
                 => i = Len(ProbeCalls)
        /\ ~(ProbeCalls[Len(ProbeCalls)].accepted
              \/ HardRejected(ProbeCalls[Len(ProbeCalls)]))
              => Len(ProbeCalls) = Len(mx_hosts)
        /\ \A i \in 1..Len(ProbeCalls) : ProbeCalls[i].host = mx_hosts[i]

C23_Witness ==
    /\ Probed
    /\ Len(ProbeCalls) = 2
    /\ ProbeCalls[1].code = Some(450)
    /\ ProbeCalls[2].code = Some(554)
    /\ R.is_catch_all = Some(FALSE)

\* the outcome of the latest smtp_try_rcpt call
LastOutcome == smtp_calls[Len(smtp_calls)]

\* C24 as stated: a call of smtp_try_rcpt that has returned tried the ports
\* in order up to the first one whose session got an answer to RCPT and
\* returned that answer's code with connected true; when no port got one it
\* tried every port and returned (false, null, null, false); and accepted is
\* true exactly when the returned code is 250 or 251.
C24_ReturnsAtFirstRcptReply ==
    last_call.returned =>
        /\ last_call.first_reply # None =>
              /\ last_call.tried = last_call.first_reply[1][1]
              /\ LastOutcome.code = Some(last_call.first_reply[1][2])
              /\ LastOutcome.connected
        /\ last_call.first_reply = None =>
              /\ last_call.tried = Len(ports)
              /\ LastOutcome.code = None
              /\ ~LastOutcome.connected
              /\ ~LastOutcome.accepted
        /\ LastOutcome.accepted =
              (LastOutcome.code # None /\ LastOutcome.code[1] \in AcceptCodes)

\* C25 as stated: when some port attempt of the real pass obtained the TCP
\* connection and the SMTP greeting (whether the session then reached the
\* return or raised at a later step), smtp_connectable is true in the result.
C25_ConnectableWhenGreeted ==
    (Probed /\ real_seen \cap {"returned", "raised_in_session"} # {}) =>
        R.smtp_connectable

\* C26 as stated: a result produced after the A/AAAA lookup found an address
\* has the domain itself as its single host and domain_has_mx false; a
\* resolver error leads to that lookup; and domain_has_mx is true only in
\* results whose hosts were not obtained by the fallback.
C26_FallbackReportsNoMx ==
    (Probed /\ dns_calls = <<"mx", "a">>) =>
        /\ R.mx_hosts = <<domain[1]>>
        /\ R.domain_has_mx = FALSE

\* the result is undeliverable, or unknown after a host was reached without
\* a verdict
ReasonFromCode ==
    /\ Probed
    /\ \/ R.status = "undeliverable"
       \/ (R.status = "unknown" /\ R.smtp_connectable /\ R.is_deliverable = None)

\* C28 as stated: reason is null iff status is deliverable, and a result that
\* is undeliverable, or unknown with smtp_connectable true and is_deliverable
\* null, has a reason of the form rcpt_<code>, never hard_fail or temp_fail.
C28_NoFallbackReason ==
    Returned =>
        /\ (R.reason = None) = (R.status = "deliverable")
        /\ ReasonFromCode => (Len(R.reason) = 2 /\ R.reason[1] = "rcpt_")

\* C28 amended: reason is null iff status is deliverable; a result that is
\* undeliverable, or unknown with smtp_connectable true and is_deliverable
\* null, has the reason rcpt_<code> of the last reply code recorded, except
\* when that code is 0: then the reason is hard_fail (undeliverable) or
\* temp_fail (unknown).
C28_FallbackReasonOnlyForCodeZero ==
    Returned =>
        /\ (R.reason = None) = (R.status = "deliverable")
        /\ ReasonFromCode =>
              /\ RealCoded # {}
              /\ R.reason = (IF LastRealCode # 0 THEN <<"rcpt_", LastRealCode>>
                             ELSE IF R.status = "undeliverable" THEN <<"hard_fail">>
                             ELSE <<"temp_fail">>)

C28_Witness ==
    /\ Returned
    /\ R.status = "undeliverable"
    /\ R.reason = <<"hard_fail">>
    /\ Len(RealCalls) = 2
    /\ RealCalls[1].code = Some(554)
    /\ RealCalls[2].code = Some(0)

\* C29: in a result, smtp_connectable, is_deliverable, the code named by a
\* reason rcpt_<code>, domain_has_mx and mx_hosts are what the lookups and
\* the calls of the real pass alone determine, and equal the locals the real
\* pass left, whatever the calls of the catch-all pass returned.
C29_CatchAllPassKeepsEvidence ==
    (Probed /\ Len(ProbeCalls) > 0) =>
        /\ R.smtp_connectable = (\E i \in 1..Len(RealCalls) : RealCalls[i].connected)
        /\ R.smtp_connectable = smtp_connectable
        /\ R.is_deliverable = Some(RealAccepted)
        /\ R.is_deliverable = deliverable
        /\ rcpt_code = Some(LastRealCode)
        /\ Len(R.reason) = 2 => R.reason[2] = LastRealCode
        /\ R.domain_has_mx = (Len(mx) > 0)
        /\ R.mx_hosts = mx_hosts
        /\ \A i \in 1..Len(RealCalls) : RealCalls[i].host = mx_hosts[i]

C29_Witness ==
    /\ Probed
    /\ Len(ProbeCalls) = 2
    /\ ProbeCalls[1].code = None
    /\ ProbeCalls[2].code = Some(550)
    /\ RealCalls[Len(RealCalls)].code = Some(251)
    /\ R.smtp_connectable
    /\ R.is_deliverable = Some(TRUE)

====
